---- MODULE Spec2Model ----
(***************************************************************************)
(* Model of the discordia membership ledger: the ledger primitive          *)
(* (apply_transaction), the bank import engine (BankTransaction::import    *)
(* with its rule resolution, duplicate guard, split allocation and         *)
(* overflow posting) and the fee run that posts monthly fees.              *)
(*                                                                         *)
(* Money is modelled in whole units (integers), dates as day numbers with  *)
(* DaysPerMonth days per month, strings as sequences of character codes    *)
(* (1..9 lowercase letters, 11..19 the matching uppercase letters).        *)
(* Option<T> is a sequence: None == <<>>, Some(v) == <<v>>.                *)
(***************************************************************************)
EXTENDS Integers, Sequences, FiniteSets, TLC

VARIABLES db, last

vars == <<db, last>>

-----------------------------------------------------------------------------
(* Bounds of the model *)

MaxDate == 2

MaxNum == 2

MaxAmount == 3

MaxSplit == 2

MaxRules == 2

MaxLedger == 2

NumMembers == 2

NumIbans == 2

DaysPerMonth == 2

MaxText == 2

MaxRunLedger == 4

Members == 1..NumMembers

Ibans == 1..NumIbans

Dates == 1..MaxDate

Nums == 1..MaxNum

Amounts == 1..MaxAmount

SplitAmounts == 1..MaxSplit

-----------------------------------------------------------------------------
(* Option and string helpers *)

None == <<>>

Some(v) == <<v>>

ToLowerChar(c) == IF c > 10 THEN c - 10 ELSE c

to_lowercase(s) == [i \in 1..Len(s) |-> ToLowerChar(s[i])]

contains(s, p) ==
    \E i \in 0..(Len(s) - Len(p)) : SubSeq(s, i + 1, i + Len(p)) = p

SplitSuffix == <<91>>

OverflowSuffix == <<92>>

Subjects == {<<1>>, <<2>>}

MatchSubjects == {<<1>>}

\* Counterpart names printed by the bank: one that names member 1 only,
\* one that is part of both member names, one that names nobody.
BankNames == {<<11, 2>>, <<1>>, <<3, 3>>}

MemberName(m) == IF m = 1 THEN <<1, 2>> ELSE <<1, 3 + (m - 2)>>

-----------------------------------------------------------------------------
(* Dates: chrono's with_day(1) and checked_add_months on day numbers *)

with_day1(d) == (d \div DaysPerMonth) * DaysPerMonth

add_month(d) == d + DaysPerMonth

-----------------------------------------------------------------------------
(* Storage: the rows of members, transactions and bank import rules *)

NewMember(m) ==
    [id |-> m,
     name |-> MemberName(m),
     account |-> 0,
     last_bank_transaction_at |-> 0,
     last_bank_transaction_number |-> 0,
     membership_start |-> (m - 1) * DaysPerMonth,
     membership_end |-> None,
     fee |-> m,
     account_calculated_at |-> 0,
     last_payment |-> 0]

\* Query<Member> with a name filter: name LIKE '%<name>%'
QueryMembersByName(d, name) ==
    {m \in DOMAIN d.members :
        contains(to_lowercase(d.members[m].name), to_lowercase(name))}

\* Retrieve<Member>
RetrieveMember(d, id) == d.members[id]

\* Update<Member>: every column of the row is written from the value passed
UpdateMember(d, member) ==
    [d EXCEPT !.members[member.id] = member]

\* Insert<Transaction>: the row gets the next id. The value insert returns
\* is the stored row, as the tests of import and apply_transaction expect of
\* the read-back that follows the INSERT.
InsertTransaction(d, tx) ==
    [d EXCEPT !.transactions =
        Append(@, [tx EXCEPT !.id = Len(d.transactions) + 1])]

\* Query<BankImportRule> filtered by iban, in row order
RECURSIVE SelectRules(_, _)
SelectRules(rs, iban) ==
    IF rs = <<>> THEN <<>>
    ELSE IF Head(rs).iban = iban
         THEN <<Head(rs)>> \o SelectRules(Tail(rs), iban)
         ELSE SelectRules(Tail(rs), iban)

QueryRulesByIban(d, iban) == SelectRules(d.rules, iban)

\* Insert<BankImportRule>
InsertRule(d, rule) == [d EXCEPT !.rules = Append(@, rule)]

-----------------------------------------------------------------------------
(* Ledger primitive *)

\* A posting that stores the transaction and leaves the balance alone
apply_transaction_no_balance(d, member, tx) ==
    LET tx1 == [tx EXCEPT !.member_id = member.id]
        d1 == [d EXCEPT !.transactions =
                   Append(@, [tx1 EXCEPT !.id = Len(d.transactions) + 1])]
    IN [db |-> d1, member |-> d1.members[member.id]]

\* ApplyTransaction for Member: insert the transaction, add its amount to the
\* member value the caller holds, write that member back.
apply_transaction(d, member, tx) ==
    LET tx1 == [tx EXCEPT !.member_id = member.id]
        d1 == InsertTransaction(d, tx1)
        member1 == [member EXCEPT !.account = @ + tx1.amount]
        d2 == UpdateMember(d1, member1)
    IN [db |-> d2, member |-> RetrieveMember(d2, member.id)]

-----------------------------------------------------------------------------
(* Bank import rules *)

\* BankImportRule::match_subject: None without a pattern, otherwise whether
\* the lowercased subject contains the pattern as stored.
match_subject(rule, subject) ==
    IF rule.match_subject = None THEN None
    ELSE Some(contains(to_lowercase(subject), rule.match_subject[1]))

\* BankImportRule::get_member
get_member(d, rule) == RetrieveMember(d, rule.member_id)

-----------------------------------------------------------------------------
(* Import engine *)

\* BankTransaction::check_last_member_transcation: TRUE is Ok(()), FALSE is
\* Err(MoreRecentTransactionPresent).
check_last_member_transcation(btx, member) ==
    LET has_recent_date == member.last_bank_transaction_at >= btx.date
        has_newer_serial == member.last_bank_transaction_number >= btx.num
    IN ~(has_recent_date /\ has_newer_serial)

\* A default rule that is returned to import and never inserted
make_default_rule_not_stored(d, btx) ==
    LET members == {m \in DOMAIN d.members :
                       contains(to_lowercase(d.members[m].name),
                                to_lowercase(btx.name))}
    IN IF Cardinality(members) = 1
       THEN [err |-> "",
             rule |-> [member_id |-> CHOOSE m \in members : TRUE,
                       iban |-> btx.iban,
                       split_amount |-> None,
                       match_subject |-> None],
             db |-> d]
       ELSE [err |-> "AccountMatchFailed", rule |-> None, db |-> d]

\* A default rule for the first member of a name query that found several
make_default_rule_first_match(d, btx) ==
    LET members == {m \in DOMAIN d.members :
                       contains(to_lowercase(d.members[m].name),
                                to_lowercase(btx.name))}
    IN IF members # {}
       THEN LET rule == [member_id |-> CHOOSE m \in members :
                                           \A n \in members : m <= n,
                         iban |-> btx.iban,
                         split_amount |-> None,
                         match_subject |-> None]
            IN [err |-> "", rule |-> rule,
                db |-> [d EXCEPT !.rules = Append(@, rule)]]
       ELSE [err |-> "AccountMatchFailed", rule |-> None, db |-> d]

\* BankTransaction::make_default_rule
make_default_rule(d, btx) ==
    LET members == QueryMembersByName(d, btx.name)
    IN IF Cardinality(members) = 1
       THEN LET member == CHOOSE m \in members : TRUE
                rule == [member_id |-> member,
                         iban |-> btx.iban,
                         split_amount |-> None,
                         match_subject |-> None]
            IN [err |-> "", rule |-> rule, db |-> InsertRule(d, rule)]
       ELSE [err |-> "AccountMatchFailed", rule |-> None, db |-> d]

\* The Transaction value import builds for one allocation
MakeTransaction(btx, amount, description) ==
    [id |-> 0,
     member_id |-> 0,
     date |-> btx.date,
     amount |-> amount,
     account_name |-> btx.name,
     description |-> description]

\* A rule loop that skips a rule whose guard fails and goes on
RECURSIVE RuleLoopSkipOnGuard(_, _, _, _, _, _, _)
RuleLoopSkipOnGuard(d, btx, rules, i, total_amount, transactions, trace) ==
    IF i > Len(rules)
    THEN [err |-> "", total_amount |-> total_amount,
          transactions |-> transactions, trace |-> trace]
    ELSE
    LET rule == rules[i]
        member == d.members[rule.member_id]
        entry(step) == [rule |-> rule, step |-> step,
                        total_amount |-> total_amount]
    IN
    IF match_subject(rule, btx.subject) = Some(FALSE)
    THEN RuleLoopSkipOnGuard(d, btx, rules, i + 1, total_amount,
                             transactions, Append(trace, entry("excluded")))
    ELSE
    IF ~check_last_member_transcation(btx, member)
    THEN RuleLoopSkipOnGuard(d, btx, rules, i + 1, total_amount,
                             transactions, Append(trace, entry("guard")))
    ELSE
    IF rule.split_amount # None /\ rule.split_amount[1] > total_amount
    THEN [err |-> "InsufficientAmountForSplit",
          total_amount |-> total_amount, transactions |-> transactions,
          trace |-> Append(trace, entry("split"))]
    ELSE
    LET amount == IF rule.split_amount # None
                  THEN rule.split_amount[1] ELSE total_amount
        tx == MakeTransaction(btx, amount, btx.subject)
    IN RuleLoopSkipOnGuard(d, btx, rules, i + 1, total_amount - amount,
                           Append(transactions, <<member, tx, btx.num>>),
                           Append(trace, entry("queued")))

\* The rule loop of import: for each rule of the IBAN the subject filter, the
\* duplicate guard and the allocation; queues (member, tx, num) and keeps the
\* remaining total_amount. trace logs what the loop did with each rule.
RECURSIVE RuleLoop(_, _, _, _, _, _, _)
RuleLoop(d, btx, rules, i, total_amount, transactions, trace) ==
    IF i > Len(rules)
    THEN [err |-> "", total_amount |-> total_amount,
          transactions |-> transactions, trace |-> trace]
    ELSE
    LET rule == rules[i] IN
    IF match_subject(rule, btx.subject) = Some(FALSE)
    THEN RuleLoop(d, btx, rules, i + 1, total_amount, transactions,
                  Append(trace, [rule |-> rule, step |-> "excluded",
                                 total_amount |-> total_amount]))
    ELSE
    LET member == get_member(d, rule) IN
    IF ~check_last_member_transcation(btx, member)
    THEN [err |-> "MoreRecentTransactionPresent",
          total_amount |-> total_amount, transactions |-> transactions,
          trace |-> Append(trace, [rule |-> rule, step |-> "guard",
                                   total_amount |-> total_amount])]
    ELSE
    IF rule.split_amount # None /\ rule.split_amount[1] > total_amount
    THEN [err |-> "InsufficientAmountForSplit",
          total_amount |-> total_amount, transactions |-> transactions,
          trace |-> Append(trace, [rule |-> rule, step |-> "split",
                                   total_amount |-> total_amount])]
    ELSE
    LET amount == IF rule.split_amount # None
                  THEN rule.split_amount[1] ELSE total_amount
        tx == MakeTransaction(btx, amount, btx.subject)
    IN RuleLoop(d, btx, rules, i + 1, total_amount - amount,
                Append(transactions, <<member, tx, btx.num>>),
                Append(trace, [rule |-> rule, step |-> "queued",
                               total_amount |-> total_amount]))

\* The posting loop of import: apply each queued transaction to the member
\* value queued with it, then store the watermark on the returned member.
RECURSIVE PostLoop(_, _)
PostLoop(d, transactions) ==
    IF transactions = <<>> THEN d
    ELSE
    LET member == Head(transactions)[1]
        tx == Head(transactions)[2]
        num == Head(transactions)[3]
        r == apply_transaction(d, member, tx)
        member1 == [r.member EXCEPT !.last_bank_transaction_at = tx.date,
                                    !.last_bank_transaction_number = num]
    IN PostLoop(UpdateMember(r.db, member1), Tail(transactions))

\* An import that returns after the posting loop and drops the left-over
PostOverflowDropped(d, btx, rules, total_amount) == d

\* A left-over posting that goes to the member of the last rule
PostOverflowToLastRule(d, btx, rules, total_amount) ==
    IF total_amount <= 0 THEN d
    ELSE
    LET rule == rules[Len(rules)]
        subject == btx.subject \o OverflowSuffix
        member == d.members[rule.member_id]
        tx == MakeTransaction(btx, total_amount, subject)
    IN apply_transaction(d, member, tx).db

\* A left-over posting that stores the watermark like a primary posting
PostOverflowSetsWatermark(d, btx, rules, total_amount) ==
    IF total_amount <= 0 THEN d
    ELSE
    LET rule == Head(rules)
        member == d.members[rule.member_id]
        tx == MakeTransaction(btx, total_amount, btx.subject \o OverflowSuffix)
        r == apply_transaction(d, member, tx)
        member1 == [r.member EXCEPT !.last_bank_transaction_at = btx.date,
                                    !.last_bank_transaction_number = btx.num]
    IN UpdateMember(r.db, member1)

\* The left-over posting of import
PostOverflow(d, btx, rules, total_amount) ==
    IF total_amount <= 0 THEN d
    ELSE
    LET rule == Head(rules)
        subject == btx.subject \o OverflowSuffix
        member == get_member(d, rule)
        tx == MakeTransaction(btx, total_amount, subject)
    IN apply_transaction(d, member, tx).db

Outcome(d, err, btx, total_amount, trace) ==
    [db |-> d, err |-> err, total_amount |-> total_amount, trace |-> trace,
     err_tx |-> IF err \in {"AccountMatchFailed", "InsufficientAmountForSplit"}
                THEN Some(btx) ELSE None]

\* An import that posts what the rule loop had queued before it failed
import_partial(d, btx) ==
    LET found == QueryRulesByIban(d, btx.iban)
        made == make_default_rule(d, btx)
    IN IF found = <<>> /\ made.err # ""
       THEN Outcome(made.db, made.err, btx, btx.amount, <<>>)
       ELSE
       LET rules == IF found = <<>> THEN <<made.rule>> ELSE found
           d0 == IF found = <<>> THEN made.db ELSE d
           loop == RuleLoop(d0, btx, rules, 1, btx.amount, <<>>, <<>>)
           d1 == PostLoop(d0, loop.transactions)
       IN IF loop.err # ""
          THEN Outcome(d1, loop.err, btx, loop.total_amount, loop.trace)
          ELSE Outcome(PostOverflow(d1, btx, rules, loop.total_amount), "",
                       btx, loop.total_amount, loop.trace)

\* BankTransaction::import
import(d, btx) ==
    LET found == QueryRulesByIban(d, btx.iban)
        made == make_default_rule(d, btx)
    IN IF found = <<>> /\ made.err # ""
       THEN Outcome(made.db, made.err, btx, btx.amount, <<>>)
       ELSE
       LET rules == IF found = <<>> THEN <<made.rule>> ELSE found
           d0 == IF found = <<>> THEN made.db ELSE d
           loop == RuleLoop(d0, btx, rules, 1, btx.amount, <<>>, <<>>)
       IN IF loop.err # ""
          THEN Outcome(d0, loop.err, btx, loop.total_amount, loop.trace)
          ELSE
          LET d1 == PostLoop(d0, loop.transactions)
              d2 == PostOverflow(d1, btx, rules, loop.total_amount)
          IN Outcome(d2, "", btx, loop.total_amount, loop.trace)

\* The database after each storage write of apply_transaction, in order:
\* the insert of the transaction, then the update of the member
apply_transaction_writes(d, member, tx) ==
    LET tx1 == [tx EXCEPT !.member_id = member.id]
        d1 == InsertTransaction(d, tx1)
        member1 == [member EXCEPT !.account = @ + tx1.amount]
    IN <<d1, UpdateMember(d1, member1)>>

\* The database after each storage write of the posting loop of import
RECURSIVE PostLoopWrites(_, _)
PostLoopWrites(d, transactions) ==
    IF transactions = <<>> THEN <<>>
    ELSE
    LET member == Head(transactions)[1]
        tx == Head(transactions)[2]
        num == Head(transactions)[3]
        r == apply_transaction(d, member, tx)
        member1 == [r.member EXCEPT !.last_bank_transaction_at = tx.date,
                                    !.last_bank_transaction_number = num]
        d1 == UpdateMember(r.db, member1)
    IN apply_transaction_writes(d, member, tx) \o <<d1>>
         \o PostLoopWrites(d1, Tail(transactions))

\* The database after each storage write of the left-over posting
PostOverflowWrites(d, btx, rules, total_amount) ==
    IF total_amount <= 0 THEN <<>>
    ELSE apply_transaction_writes(
             d, get_member(d, Head(rules)),
             MakeTransaction(btx, total_amount, btx.subject \o OverflowSuffix))

\* The database after each storage write one call of import issues, in the
\* order of the calls: the insert of a default rule, the posting loop, the
\* left-over posting. Every db call returns a Result that import passes on
\* with ?, so the call can end after any prefix of these writes.
ImportWrites(d, btx) ==
    LET found == QueryRulesByIban(d, btx.iban)
        made == make_default_rule(d, btx)
    IN IF found = <<>> /\ made.err # "" THEN <<>>
       ELSE
       LET rules == IF found = <<>> THEN <<made.rule>> ELSE found
           d0 == IF found = <<>> THEN made.db ELSE d
           first == IF found = <<>> THEN <<d0>> ELSE <<>>
           loop == RuleLoop(d0, btx, rules, 1, btx.amount, <<>>, <<>>)
       IN IF loop.err # "" THEN first
          ELSE first \o PostLoopWrites(d0, loop.transactions)
                 \o PostOverflowWrites(PostLoop(d0, loop.transactions),
                                       btx, rules, loop.total_amount)

-----------------------------------------------------------------------------
(* Fee engine *)

MembershipFeeName == <<93>>

\* MemberFee::describe: "Monthly member fee for <Month Year>"
describe(fee) == <<94, fee.date \div DaysPerMonth>>

\* From<MemberFee> for Transaction
FeeTransaction(fee) ==
    [id |-> 0,
     member_id |-> 0,
     date |-> fee.date,
     amount |-> 0 - fee.amount,
     account_name |-> MembershipFeeName,
     description |-> describe(fee)]

\* An activity test on the dates as given, not aligned to their months
is_member_active_unaligned(member, date) ==
    /\ ~(date < member.membership_start)
    /\ \/ member.membership_end = None
       \/ ~(date > member.membership_end[1])

is_member_active(member, date) ==
    LET d == with_day1(date)
        start == with_day1(member.membership_start)
    IN /\ ~(d < start)
       /\ \/ member.membership_end = None
          \/ ~(d > with_day1(member.membership_end[1]))

\* A fee loop that stops before the month of the end date
RECURSIVE FeeLoopExclusiveEnd(_, _, _, _, _)
FeeLoopExclusiveEnd(member, last_payment, date, end, fees) ==
    IF ~(date < end) THEN fees
    ELSE FeeLoopExclusiveEnd(
             member, last_payment, date + DaysPerMonth, end,
             IF is_member_active(member, date) /\ date > last_payment
             THEN Append(fees, [amount |-> member.fee, date |-> date])
             ELSE fees)

RECURSIVE FeeLoop(_, _, _, _, _)
FeeLoop(member, last_payment, date, end, fees) ==
    IF ~(date <= end) THEN fees
    ELSE FeeLoop(member, last_payment, add_month(date), end,
                 IF is_member_active(member, date) /\ date > last_payment
                 THEN Append(fees, [amount |-> member.fee, date |-> date])
                 ELSE fees)

\* CalculateFees for Member
calculate_fees(member, start, end) ==
    LET last_payment == with_day1(member.last_payment)
        s == IF with_day1(member.membership_start) >= with_day1(start)
             THEN with_day1(member.membership_start) ELSE with_day1(start)
        e == with_day1(end)
    IN FeeLoop(member, last_payment, s, e, <<>>)

\* A fee window that starts in the month of account_calculated_at itself
FeeWindowStartAtCursor(member) == with_day1(member.account_calculated_at)

\* Start of the window of a fee run: the month after account_calculated_at
FeeWindowStart(member) == add_month(with_day1(member.account_calculated_at))

RECURSIVE ApplyFees(_, _, _)
ApplyFees(d, member, fees) ==
    IF fees = <<>> THEN [db |-> d, member |-> member]
    ELSE LET r == apply_transaction(d, member, FeeTransaction(Head(fees)))
         IN ApplyFees(r.db, r.member, Tail(fees))

\* A fee run that posts the fees and leaves account_calculated_at alone
RECURSIVE FeeRunLoopNoCursor(_, _, _, _)
FeeRunLoopNoCursor(d, members, ids, end) ==
    IF ids = <<>> THEN d
    ELSE
    LET member == members[Head(ids)]
        fees == calculate_fees(member, FeeWindowStart(member), end)
    IN FeeRunLoopNoCursor(ApplyFees(d, member, fees).db, members,
                          Tail(ids), end)

\* A fee run that stores the end date for every member, fees or not
RECURSIVE FeeRunLoopAlwaysSetsCursor(_, _, _, _)
FeeRunLoopAlwaysSetsCursor(d, members, ids, end) ==
    IF ids = <<>> THEN d
    ELSE
    LET member == members[Head(ids)]
        fees == calculate_fees(member, FeeWindowStart(member), end)
        r == ApplyFees(d, member, fees)
        member1 == [r.member EXCEPT !.account_calculated_at = end]
    IN FeeRunLoopAlwaysSetsCursor(UpdateMember(r.db, member1), members,
                                  Tail(ids), end)

\* CalculateAccounts::run, the loop over the members queried at the start
RECURSIVE FeeRunLoop(_, _, _, _)
FeeRunLoop(d, members, ids, end) ==
    IF ids = <<>> THEN d
    ELSE
    LET member == members[Head(ids)]
        fees == calculate_fees(member, FeeWindowStart(member), end)
    IN IF fees = <<>> THEN FeeRunLoop(d, members, Tail(ids), end)
       ELSE
       LET r == ApplyFees(d, member, fees)
           member1 == [r.member EXCEPT !.account_calculated_at = end]
       IN FeeRunLoop(UpdateMember(r.db, member1), members, Tail(ids), end)

CalculateAccountsRun(d, until) ==
    FeeRunLoop(d, d.members, [i \in 1..NumMembers |-> i], with_day1(until))

-----------------------------------------------------------------------------
(* State machine *)

\* The rule tables an operator can have set up: at most MaxRules rules drawn
\* from R, one per (member, IBAN), in row order.
RuleConfigs(R) ==
    {c \in UNION {[1..n -> R] : n \in 0..MaxRules} :
        \A i, j \in DOMAIN c :
            (c[i].member_id = c[j].member_id /\ c[i].iban = c[j].iban)
                => i = j}

OptionOf(S) == {None} \cup {Some(v) : v \in S}

\* Rules with an optional subject filter and no split
FilterRules ==
    [member_id : Members, iban : {1},
     split_amount : {None}, match_subject : OptionOf(MatchSubjects)]

\* Rules with an optional split amount and an optional subject filter
AllocRules ==
    [member_id : Members, iban : {1},
     split_amount : OptionOf(SplitAmounts),
     match_subject : OptionOf(MatchSubjects)]

\* Statement lines that differ in date, serial number and subject
GuardTxs ==
    [num : Nums, date : Dates, name : {<<11, 2>>}, iban : {1},
     amount : {1}, subject : Subjects]

\* Statement lines that differ in amount and subject
AllocTxs ==
    [num : {1}, date : {1}, name : {<<11, 2>>}, iban : {1},
     amount : Amounts, subject : Subjects]

\* Statement lines that differ in counterpart name, IBAN, date and number
DefaultTxs ==
    [num : Nums, date : Dates, name : BankNames, iban : Ibans,
     amount : {1}, subject : {<<1>>}]

FeeDates == {m * DaysPerMonth : m \in 0..MaxDate}

InitWith(configs) ==
    /\ db \in {[members |-> [m \in Members |-> NewMember(m)],
                transactions |-> <<>>,
                rules |-> c] : c \in configs}
    /\ last = [op |-> "none"]

\* The rows a call appended to the transactions table
Posted(before, after) ==
    SubSeq(after.transactions, Len(before.transactions) + 1,
           Len(after.transactions))

\* One call of BankTransaction::import
Import(btx) ==
    LET r == import(db, btx)
    IN /\ Len(db.transactions) < MaxLedger
       /\ db' = r.db
       /\ last' = [op |-> "import", btx |-> btx, err |-> r.err,
                   err_tx |-> r.err_tx, total_amount |-> r.total_amount,
                   trace |-> r.trace, posted |-> Posted(db, r.db)]

\* CalculateAccounts::run
FeeRun(until) ==
    /\ Len(db.transactions) < MaxLedger
    /\ db' = CalculateAccountsRun(db, until)
    /\ last' = [op |-> "fee_run", until |-> until]

\* Imports against filtered rules, and fee runs
Init == InitWith(RuleConfigs(FilterRules))

Next ==
    \/ \E btx \in GuardTxs : Import(btx)
    \/ \E until \in FeeDates : FeeRun(until)

Spec == Init /\ [][Next]_vars

\* Imports against split rules
InitAlloc == InitWith(RuleConfigs(AllocRules))

NextAlloc == \E btx \in AllocTxs : Import(btx)

SpecAlloc == InitAlloc /\ [][NextAlloc]_vars

\* Imports for IBANs that have no rule yet
InitDefault == InitWith({<<>>})

NextDefault == \E btx \in DefaultTxs : Import(btx)

SpecDefault == InitDefault /\ [][NextDefault]_vars

\* An import loop that returns at the first line that fails
RECURSIVE BatchLoopAbortOnError(_, _, _)
BatchLoopAbortOnError(d, lines, failed_tx) ==
    IF lines = <<>> THEN [db |-> d, failed_tx |-> failed_tx]
    ELSE LET r == import(d, Head(lines))
         IN IF r.err = ""
            THEN BatchLoopAbortOnError(r.db, Tail(lines), failed_tx)
            ELSE [db |-> r.db,
                  failed_tx |-> Append(failed_tx, [tx |-> Head(lines),
                                                   err |-> r.err])]

\* BankImport::run, the loop over the lines of the statement: every line is
\* imported, a failing line is collected with its error.
RECURSIVE BatchLoop(_, _, _)
BatchLoop(d, lines, failed_tx) ==
    IF lines = <<>> THEN [db |-> d, failed_tx |-> failed_tx]
    ELSE LET r == import(d, Head(lines))
         IN BatchLoop(r.db, Tail(lines),
                      IF r.err = "" THEN failed_tx
                      ELSE Append(failed_tx, [tx |-> Head(lines),
                                              err |-> r.err]))

\* Statements as the parser numbers them: the serial number grows with the
\* position of the line.
Statements ==
    {<<a>> : a \in GuardTxs}
        \cup {<<a, b>> : a \in GuardTxs, b \in GuardTxs}

BankImportRun(lines) ==
    LET r == BatchLoop(db, lines, <<>>)
    IN /\ Len(db.transactions) < MaxLedger
       /\ \A i, j \in DOMAIN lines : i < j => lines[i].num < lines[j].num
       /\ db' = r.db
       /\ last' = [op |-> "batch", lines |-> lines,
                   failed_tx |-> r.failed_tx, posted |-> Posted(db, r.db)]

\* Batch imports of statements against filtered rules
InitBatch == InitWith(RuleConfigs(FilterRules))

NextBatch == \E lines \in Statements : BankImportRun(lines)

SpecBatch == InitBatch /\ [][NextBatch]_vars

\* One call of BankTransaction::import whose k-th storage write returns an
\* error: the writes before it are stored, the call returns Error
ImportStorageFailure(btx, k) ==
    LET w == ImportWrites(db, btx)
        d1 == IF k = 1 THEN db ELSE w[k - 1]
    IN /\ Len(db.transactions) < MaxLedger
       /\ k \in 1..Len(w)
       /\ db' = d1
       /\ last' = [op |-> "import", btx |-> btx, err |-> "Error",
                   err_tx |-> None, total_amount |-> btx.amount,
                   trace |-> <<>>, failed_write |-> k,
                   posted |-> Posted(db, d1)]

\* The most storage writes one call of import issues for MaxRules rules
MaxImportWrites == 3 * MaxRules + 2

\* Imports against filtered rules whose storage can fail
InitFault == InitWith(RuleConfigs(FilterRules))

NextFault ==
    \/ \E btx \in GuardTxs : Import(btx)
    \/ \E btx \in GuardTxs, k \in 1..MaxImportWrites :
          ImportStorageFailure(btx, k)

SpecFault == InitFault /\ [][NextFault]_vars

\* The database after each storage write of the apply loop of a fee run
RECURSIVE ApplyFeesWrites(_, _, _)
ApplyFeesWrites(d, member, fees) ==
    IF fees = <<>> THEN <<>>
    ELSE LET tx == FeeTransaction(Head(fees))
             r == apply_transaction(d, member, tx)
         IN apply_transaction_writes(d, member, tx)
              \o ApplyFeesWrites(r.db, r.member, Tail(fees))

\* The database after each storage write one fee run issues, in the order
\* of the calls: per member with fees the insert and the member update of
\* every fee, then the update that stores account_calculated_at. Every db
\* call returns a Result that run passes on with ?, so the run can end after
\* any prefix of these writes.
RECURSIVE FeeRunWrites(_, _, _, _)
FeeRunWrites(d, members, ids, end) ==
    IF ids = <<>> THEN <<>>
    ELSE
    LET member == members[Head(ids)]
        fees == calculate_fees(member, FeeWindowStart(member), end)
    IN IF fees = <<>> THEN FeeRunWrites(d, members, Tail(ids), end)
       ELSE
       LET r == ApplyFees(d, member, fees)
           member1 == [r.member EXCEPT !.account_calculated_at = end]
           d1 == UpdateMember(r.db, member1)
       IN ApplyFeesWrites(d, member, fees) \o <<d1>>
            \o FeeRunWrites(d1, members, Tail(ids), end)

\* One fee run whose k-th storage write returns an error: the writes before
\* it are stored and the run ends
FeeRunStorageFailure(until, k) ==
    LET w == FeeRunWrites(db, db.members, [i \in 1..NumMembers |-> i],
                          with_day1(until))
    IN /\ Len(db.transactions) < MaxLedger
       /\ k \in 1..Len(w)
       /\ db' = IF k = 1 THEN db ELSE w[k - 1]
       /\ last' = [op |-> "fee_run_failed", until |-> until,
                   failed_write |-> k]

\* The most storage writes one fee run issues
MaxFeeRunWrites == NumMembers * (2 * (MaxDate + 1) + 1)

\* The billing states of a member at the start of fee runs: membership from
\* the first of any month, with or without an end
RunBillingStates(m) ==
    {[NewMember(m) EXCEPT !.membership_start = s, !.membership_end = e] :
        s \in FeeDates, e \in OptionOf(FeeDates)}

\* Fee runs whose storage can fail, on every billing state of the first
\* member
InitFeeRun ==
    /\ db \in {[members |-> [m \in Members |->
                                IF m = 1 THEN b ELSE NewMember(m)],
                transactions |-> <<>>,
                rules |-> <<>>] : b \in RunBillingStates(1)}
    /\ last = [op |-> "none"]

NextFeeRun ==
    \/ \E until \in FeeDates : FeeRun(until)
    \/ \E until \in FeeDates, k \in 1..MaxFeeRunWrites :
          FeeRunStorageFailure(until, k)

SpecFeeRun == InitFeeRun /\ [][NextFeeRun]_vars

\* Query<Transaction> with filter date_after: the rows with date >= date
QueryTransactionsDateAfter(d, date) ==
    SelectSeq(d.transactions, LAMBDA tx : tx.date >= date)

\* The greatest date of a non-empty list of transactions
MaxTransactionDate(txs) ==
    CHOOSE x \in {txs[i].date : i \in DOMAIN txs} :
        \A i \in DOMAIN txs : txs[i].date <= x

\* A plausibility check that only looks for transactions after the date
check_import_date_strictly_after(d, date) ==
    LET found == SelectSeq(d.transactions, LAMBDA tx : tx.date > date)
    IN IF found # <<>> /\ MaxTransactionDate(found) >= date
       THEN "NewerTransactionsPresent" ELSE ""

\* check_import_date: "" is Ok(())
check_import_date(d, date) ==
    LET found == QueryTransactionsDateAfter(d, date)
    IN IF found # <<>> /\ MaxTransactionDate(found) >= date
       THEN "NewerTransactionsPresent" ELSE ""

\* One call of check_import_date
CheckImportDate(date) ==
    /\ last' = [op |-> "check_import_date", date |-> date,
                err |-> check_import_date(db, date)]
    /\ UNCHANGED db

\* Dates to check: every day a transaction can have and the day after
CheckDates == 0..(MaxDate * DaysPerMonth + 1)

\* Rules without split and without subject filter
CatchAllRules ==
    [member_id : Members, iban : {1},
     split_amount : {None}, match_subject : {None}]

\* Imports, fee runs and plausibility checks
InitDate == InitWith(RuleConfigs(CatchAllRules))

NextDate ==
    \/ \E btx \in GuardTxs : Import(btx)
    \/ \E until \in FeeDates : FeeRun(until)
    \/ \E date \in CheckDates : CheckImportDate(date)

SpecDate == InitDate /\ [][NextDate]_vars

\* Days a membership date, a payment date or a fee window can fall on
FeeDays == 0..((MaxDate + 1) * DaysPerMonth - 1)

\* The billing states of a member: start, optional end and last payment of
\* the membership on any day
BillingStates(m) ==
    {[NewMember(m) EXCEPT !.membership_start = s,
                          !.membership_end = e,
                          !.last_payment = p] :
        s \in FeeDays, e \in OptionOf(FeeDays), p \in FeeDays}

\* One call of calculate_fees on a stored member; a behaviour makes one call
CalculateFeesCall(m, start, end) ==
    /\ last.op = "none"
    /\ last' = [op |-> "calculate_fees", member |-> db.members[m],
                start |-> start, end |-> end,
                fees |-> calculate_fees(db.members[m], start, end)]
    /\ UNCHANGED db

\* calculate_fees on every billing state of the first member
InitFees ==
    /\ db \in {[members |-> [m \in Members |->
                                IF m = 1 THEN b ELSE NewMember(m)],
                transactions |-> <<>>,
                rules |-> <<>>] : b \in BillingStates(1)}
    /\ last = [op |-> "none"]

NextFees ==
    \E start \in FeeDays, end \in FeeDays : CalculateFeesCall(1, start, end)

SpecFees == InitFees /\ [][NextFees]_vars

\* Statement lines of one payer and one day, told apart by their serial
\* number and their subject
LineTxs ==
    [num : Nums, date : {1}, name : {<<11, 2>>}, iban : {1},
     amount : {1}, subject : Subjects]

LineStatements ==
    {<<a>> : a \in LineTxs} \cup {<<a, b>> : a \in LineTxs, b \in LineTxs}

\* Batch imports of statements against filtered rules
InitLines == InitWith(RuleConfigs(FilterRules))

NextLines == \E lines \in LineStatements : BankImportRun(lines)

SpecLines == InitLines /\ [][NextLines]_vars

\* chrono's checked_sub_months(1) on the first day of a month
sub_month(d) == d - DaysPerMonth

\* The check compares with the month of the watermark itself
check_member_fee_calculation_dates_same_month(d, start, end) ==
    LET start1 == with_day1(start)
        end1 == with_day1(end)
        calculated_at == with_day1(d.state.accounts_calculated_at)
    IN IF start1 <= calculated_at THEN "LastCalculationAfterStart"
       ELSE IF end1 <= calculated_at THEN "LastCalculationAfterEnd"
       ELSE ""

\* check_member_fee_calculation_dates: "" is Ok(()), otherwise the name of
\* the error. The State row is retrieved, nothing is written.
check_member_fee_calculation_dates(d, start, end) ==
    LET start1 == with_day1(start)
        end1 == with_day1(end)
        calculated_at == sub_month(with_day1(d.state.accounts_calculated_at))
    IN IF start1 <= calculated_at THEN "LastCalculationAfterStart"
       ELSE IF end1 <= calculated_at THEN "LastCalculationAfterEnd"
       ELSE ""

\* One call of check_member_fee_calculation_dates
CheckMemberFeeCalculationDates(start, end) ==
    /\ last' = [op |-> "check_fee_dates", start |-> start, end |-> end,
                result |-> check_member_fee_calculation_dates(db, start, end)]
    /\ UNCHANGED db

\* Update<State>: stores accounts_calculated_at
UpdateState(date) ==
    /\ db' = [db EXCEPT !.state = [accounts_calculated_at |-> date]]
    /\ last' = [op |-> "update_state", date |-> date]

\* The database with its State row, which starts at the epoch
InitState ==
    /\ db = [members |-> [m \in Members |-> NewMember(m)],
             transactions |-> <<>>,
             rules |-> <<>>,
             state |-> [accounts_calculated_at |-> 0]]
    /\ last = [op |-> "none"]

NextState ==
    \/ \E date \in FeeDays : UpdateState(date)
    \/ \E start \in FeeDays, end \in FeeDays :
          CheckMemberFeeCalculationDates(start, end)

SpecState == InitState /\ [][NextState]_vars

\* The errors a storage call can return
StorageErrors == {"Database", "PoolTimedOut"}

\* Postings given to the ledger primitive directly
LedgerTxs ==
    {MakeTransaction([date |-> date, name |-> <<11, 2>>], amount, <<1>>) :
        date \in {1}, amount \in Amounts}

\* A posting whose two writes are undone when one of them fails
apply_transaction_failing_atomic(d, member, tx, k, e) ==
    [db |-> d, member |-> None, err |-> e]

\* apply_transaction when its k-th storage call returns the error e: the ?
\* after the insert (k = 1) or after the update (k = 2) returns e to the
\* caller; the writes before it stay stored.
apply_transaction_failing(d, member, tx, k, e) ==
    LET w == apply_transaction_writes(d, member, tx)
    IN [db |-> IF k = 1 THEN d ELSE w[k - 1], member |-> None, err |-> e]

\* One call of apply_transaction on a retrieved member
ApplyTransaction(m, tx) ==
    LET r == apply_transaction(db, RetrieveMember(db, m), tx)
    IN /\ Len(db.transactions) < MaxLedger
       /\ db' = r.db
       /\ last' = [op |-> "apply_transaction", member_id |-> m, tx |-> tx,
                   failed_write |-> 0, member |-> Some(r.member),
                   err |-> "", storage_err |-> ""]

\* One call of apply_transaction whose k-th storage call fails with e
ApplyTransactionStorageFailure(m, tx, k, e) ==
    LET r == apply_transaction_failing(db, RetrieveMember(db, m), tx, k, e)
    IN /\ Len(db.transactions) < MaxLedger
       /\ db' = r.db
       /\ last' = [op |-> "apply_transaction", member_id |-> m, tx |-> tx,
                   failed_write |-> k, member |-> r.member,
                   err |-> r.err, storage_err |-> e]

\* Postings through the ledger primitive, any storage call of which can fail
InitLedger == InitWith({<<>>})

NextLedger ==
    \/ \E m \in Members, tx \in LedgerTxs : ApplyTransaction(m, tx)
    \/ \E m \in Members, tx \in LedgerTxs, k \in 1..2, e \in StorageErrors :
          ApplyTransactionStorageFailure(m, tx, k, e)

SpecLedger == InitLedger /\ [][NextLedger]_vars

\* Texts of up to MaxText letters in either case
Letters == {1, 2, 11, 12}

Texts == UNION {[1..n -> Letters] : n \in 1..MaxText}

\* Rules of member 1 with any text as optional subject filter
TextRules ==
    [member_id : {1}, iban : {1},
     split_amount : {None}, match_subject : OptionOf(Texts)]

\* One call of BankImportRule::match_subject on the i-th stored rule
MatchSubject(i, subject) ==
    /\ i \in DOMAIN db.rules
    /\ last' = [op |-> "match_subject", rule |-> db.rules[i],
                subject |-> subject,
                result |-> match_subject(db.rules[i], subject)]
    /\ UNCHANGED db

\* Subject matching of one stored rule against every text
InitMatch ==
    /\ db \in {[members |-> [m \in Members |-> NewMember(m)],
                transactions |-> <<>>,
                rules |-> <<r>>] : r \in TextRules}
    /\ last = [op |-> "none"]

NextMatch == \E subject \in Texts : MatchSubject(1, subject)

SpecMatch == InitMatch /\ [][NextMatch]_vars

\* One call of import in flight. Every await on the database locks the
\* connection for that one storage call only, so another call can run its own
\* storage calls between any two of them. pc names the storage call the call
\* makes next; the other fields are the locals of import.
NewCall(btx) ==
    [btx |-> btx, pc |-> "query_rules", rules |-> <<>>, i |-> 0,
     total_amount |-> btx.amount, transactions |-> <<>>, member |-> None,
     err |-> ""]

Finish(c, err) == [c EXCEPT !.pc = "done", !.err = err, !.member = None]

\* After the posting loop: return, or fetch the member of the first rule
EnterOverflow(c) ==
    IF c.total_amount <= 0 THEN Finish(c, "")
    ELSE [c EXCEPT !.pc = "overflow_get", !.member = None]

\* After the rule loop: apply the next queued transaction, if there is one
EnterPost(c) ==
    IF c.transactions # <<>> THEN [c EXCEPT !.pc = "insert", !.member = None]
    ELSE EnterOverflow(c)

\* The rule loop up to its next get_member: rules excluded by their subject
\* filter are passed over without a storage call
RECURSIVE SeekRule(_, _)
SeekRule(c, i) ==
    IF i > Len(c.rules) THEN EnterPost(c)
    ELSE IF match_subject(c.rules[i], c.btx.subject) = Some(FALSE)
    THEN SeekRule(c, i + 1)
    ELSE [c EXCEPT !.pc = "get_member", !.i = i]

\* The next storage call of a call of import and the code up to the storage
\* call after it
ImportStep(d, c) ==
    CASE c.pc = "query_rules" ->
            LET found == QueryRulesByIban(d, c.btx.iban)
            IN IF found = <<>>
               THEN [db |-> d, call |-> [c EXCEPT !.pc = "query_members"]]
               ELSE [db |-> d, call |-> SeekRule([c EXCEPT !.rules = found], 1)]
      [] c.pc = "query_members" ->
            LET members == QueryMembersByName(d, c.btx.name)
            IN IF Cardinality(members) = 1
               THEN [db |-> d,
                     call |-> [c EXCEPT
                        !.pc = "insert_rule",
                        !.member = Some(d.members[CHOOSE m \in members : TRUE])]]
               ELSE [db |-> d, call |-> Finish(c, "AccountMatchFailed")]
      [] c.pc = "insert_rule" ->
            LET rule == [member_id |-> c.member[1].id, iban |-> c.btx.iban,
                         split_amount |-> None, match_subject |-> None]
            IN IF \E k \in DOMAIN d.rules :
                     /\ d.rules[k].member_id = rule.member_id
                     /\ d.rules[k].iban = rule.iban
               THEN [db |-> d, call |-> Finish(c, "Error")]
               ELSE [db |-> InsertRule(d, rule),
                     call |-> SeekRule([c EXCEPT !.rules = <<rule>>], 1)]
      [] c.pc = "get_member" ->
            LET rule == c.rules[c.i]
                member == get_member(d, rule)
                amount == IF rule.split_amount # None
                          THEN rule.split_amount[1] ELSE c.total_amount
                tx == MakeTransaction(c.btx, amount, c.btx.subject)
            IN IF ~check_last_member_transcation(c.btx, member)
               THEN [db |-> d,
                     call |-> Finish(c, "MoreRecentTransactionPresent")]
               ELSE IF rule.split_amount # None
                       /\ rule.split_amount[1] > c.total_amount
               THEN [db |-> d,
                     call |-> Finish(c, "InsufficientAmountForSplit")]
               ELSE [db |-> d,
                     call |-> SeekRule(
                        [c EXCEPT !.total_amount = @ - amount,
                                  !.transactions =
                                      Append(@, <<member, tx, c.btx.num>>)],
                        c.i + 1)]
      [] c.pc = "insert" ->
            LET member == Head(c.transactions)[1]
                tx == [Head(c.transactions)[2] EXCEPT !.member_id = member.id]
            IN [db |-> InsertTransaction(d, tx),
                call |-> [c EXCEPT
                   !.pc = "update_account",
                   !.member = Some([member EXCEPT !.account = @ + tx.amount])]]
      [] c.pc = "update_account" ->
            [db |-> UpdateMember(d, c.member[1]),
             call |-> [c EXCEPT !.pc = "read_account"]]
      [] c.pc = "read_account" ->
            LET tx == Head(c.transactions)[2]
                num == Head(c.transactions)[3]
                member == RetrieveMember(d, c.member[1].id)
            IN [db |-> d,
                call |-> [c EXCEPT
                   !.pc = "update_watermark",
                   !.member = Some([member EXCEPT
                                       !.last_bank_transaction_at = tx.date,
                                       !.last_bank_transaction_number = num])]]
      [] c.pc = "update_watermark" ->
            [db |-> UpdateMember(d, c.member[1]),
             call |-> EnterPost([c EXCEPT !.transactions = Tail(@)])]
      [] c.pc = "overflow_get" ->
            [db |-> d,
             call |-> [c EXCEPT !.pc = "overflow_insert",
                                !.member = Some(get_member(d, Head(c.rules)))]]
      [] c.pc = "overflow_insert" ->
            LET member == c.member[1]
                tx == [MakeTransaction(c.btx, c.total_amount,
                                       c.btx.subject \o OverflowSuffix)
                          EXCEPT !.member_id = member.id]
            IN [db |-> InsertTransaction(d, tx),
                call |-> [c EXCEPT
                   !.pc = "overflow_update",
                   !.member = Some([member EXCEPT !.account = @ + tx.amount])]]
      [] c.pc = "overflow_update" ->
            [db |-> UpdateMember(d, c.member[1]), call |-> Finish(c, "")]

\* A call of import run from d to its end with no other call in between
RECURSIVE RunCall(_, _)
RunCall(d, c) ==
    IF c.pc = "done" THEN [db |-> d, call |-> c]
    ELSE LET r == ImportStep(d, c) IN RunCall(r.db, r.call)

\* Two calls of import are started on the same connection
StartImports(b1, b2) ==
    /\ last.op = "none"
    /\ last' = [op |-> "imports", start |-> db,
                calls |-> <<NewCall(b1), NewCall(b2)>>]
    /\ UNCHANGED db

\* The call p makes its next storage call
ImportStepOf(p) ==
    /\ last.op = "imports"
    /\ last.calls[p].pc # "done"
    /\ LET r == ImportStep(db, last.calls[p])
       IN /\ db' = r.db
          /\ last' = [last EXCEPT !.calls[p] = r.call]

\* Statement lines of one payer that differ in date and serial number
RaceTxs ==
    [num : Nums, date : Dates, name : {<<11, 2>>}, iban : {1},
     amount : {1}, subject : {<<1>>}]

\* Two calls of import whose storage calls interleave in every order
InitRace == InitWith(RuleConfigs(CatchAllRules))

NextRace ==
    \/ \E b1 \in RaceTxs, b2 \in RaceTxs : StartImports(b1, b2)
    \/ \E p \in 1..2 : ImportStepOf(p)

SpecRace == InitRace /\ [][NextRace]_vars

\* One call of CalculateAccounts::run in a history of runs that all complete
CompletedFeeRun(until) ==
    /\ Len(db.transactions) < MaxRunLedger
    /\ db' = CalculateAccountsRun(db, until)
    /\ last' = [op |-> "fee_run", until |-> until]

\* Fee runs that complete, for end dates in any order, on every billing
\* state of every member
InitRuns ==
    /\ db \in {[members |-> b, transactions |-> <<>>, rules |-> <<>>] :
                b \in {f \in [Members -> UNION {RunBillingStates(m) :
                                                  m \in Members}] :
                          \A m \in Members : f[m].id = m}}
    /\ last = [op |-> "none"]

NextRuns == \E until \in FeeDates : CompletedFeeRun(until)

SpecRuns == InitRuns /\ [][NextRuns]_vars

-----------------------------------------------------------------------------
(* Properties *)

RECURSIVE SumAmounts(_, _)
SumAmounts(txs, m) ==
    IF txs = <<>> THEN 0
    ELSE (IF Head(txs).member_id = m THEN Head(txs).amount ELSE 0)
         + SumAmounts(Tail(txs), m)

\* (date, number) pairs in lexicographic order
LexGE(a, b) == a[1] > b[1] \/ (a[1] = b[1] /\ a[2] >= b[2])

Watermark(member) ==
    <<member.last_bank_transaction_at, member.last_bank_transaction_number>>

C2_GuardIsLexicographic ==
    [][last'.op = "import" =>
        \A k \in DOMAIN last'.trace :
            LET e == last'.trace[k]
                member == db.members[e.rule.member_id]
            IN e.step # "excluded" =>
                ((e.step = "guard") <=>
                    LexGE(Watermark(member),
                          <<last'.btx.date, last'.btx.num>>))]_vars

\* C3: no step lowers a member's (date, number) watermark in lexicographic
\* order.
C3_WatermarkNeverDecreases ==
    [][\A m \in Members :
          LexGE(Watermark(db'.members[m]), Watermark(db.members[m]))]_vars

SameAccounts(d1, d2) ==
    \A m \in Members : d1.members[m].account = d2.members[m].account

\* C4: an import whose (date, number) equals the watermark of the member of
\* a rule of its IBAN fails with the more-recent-transaction error, creates
\* no transaction and changes no balance.
C4_EqualWatermarkIsRejected ==
    [][(/\ last'.op = "import"
        /\ \E i \in DOMAIN QueryRulesByIban(db', last'.btx.iban) :
              Watermark(db.members[
                  QueryRulesByIban(db', last'.btx.iban)[i].member_id])
                = <<last'.btx.date, last'.btx.num>>)
       => (/\ last'.err = "MoreRecentTransactionPresent"
           /\ db'.transactions = db.transactions
           /\ SameAccounts(db', db))]_vars

\* C5: a batch import of the lines the previous batch import ran on posts no
\* transaction and changes no balance, and every line the previous run
\* imported is rejected with the more-recent-transaction error.
C5_ReimportIsNoOp ==
    [][(last.op = "batch" /\ last'.op = "batch" /\ last'.lines = last.lines)
       => (/\ db'.transactions = db.transactions
           /\ SameAccounts(db', db)
           /\ \A k \in DOMAIN last.lines :
                 (\A f \in DOMAIN last.failed_tx :
                     last.failed_tx[f].tx # last.lines[k])
                 => \E f \in DOMAIN last'.failed_tx :
                       /\ last'.failed_tx[f].tx = last.lines[k]
                       /\ last'.failed_tx[f].err
                            = "MoreRecentTransactionPresent")]_vars

RECURSIVE SumAll(_)
SumAll(txs) ==
    IF txs = <<>> THEN 0 ELSE Head(txs).amount + SumAll(Tail(txs))

ImportOk == last.op = "import" /\ last.err = ""

\* The rules import resolved for the IBAN of the last call, in query order
ResolvedRules == QueryRulesByIban(db, last.btx.iban)

Queued == {k \in DOMAIN last.trace : last.trace[k].step = "queued"}

OverflowDescription == last.btx.subject \o OverflowSuffix

\* C6: the amounts of the transactions a successful import posted sum to the
\* amount of the bank transaction.
C6_PostingsSumToAmount ==
    ImportOk => SumAll(last.posted) = last.btx.amount

\* C6 witness: a successful import posted two splits and an overflow
C6_Witness ==
    /\ ImportOk
    /\ Len(last.posted) = 3
    /\ last.posted[1].member_id # last.posted[2].member_id

\* C7: when the rule loop leaves a positive remainder, exactly one more
\* transaction of that amount goes to the member of the first resolved rule,
\* described as the subject followed by the overflow suffix; otherwise no
\* overflow transaction is posted.
C7_OverflowToFirstRule ==
    ImportOk =>
        IF last.total_amount > 0
        THEN /\ Len(last.posted) = Cardinality(Queued) + 1
             /\ LET o == last.posted[Len(last.posted)]
                IN /\ o.amount = last.total_amount
                   /\ o.member_id = Head(ResolvedRules).member_id
                   /\ o.description = OverflowDescription
             /\ \A k \in 1..(Len(last.posted) - 1) :
                   last.posted[k].description # OverflowDescription
        ELSE /\ Len(last.posted) = Cardinality(Queued)
             /\ \A k \in DOMAIN last.posted :
                   last.posted[k].description # OverflowDescription

\* C7 witness: two split rules for different members left a remainder that
\* went to the member of the first rule
C7_Witness ==
    /\ ImportOk
    /\ last.total_amount > 0
    /\ Cardinality(Queued) = 2
    /\ Len(ResolvedRules) = 2
    /\ last.posted[3].member_id = ResolvedRules[1].member_id
    /\ last.posted[3].member_id # ResolvedRules[2].member_id

\* The state before a step held no rule for the IBAN of the call the step
\* made, and the name query of that call returned the members ms.
NoRuleAndNameMatches(ms) ==
    /\ last'.op = "import"
    /\ QueryRulesByIban(db, last'.btx.iban) = <<>>
    /\ QueryMembersByName(db, last'.btx.name) = ms

DefaultRule(m, iban) ==
    [member_id |-> m, iban |-> iban,
     split_amount |-> None, match_subject |-> None]

FullAmountPostedTo(m) ==
    /\ Len(last'.posted) = 1
    /\ last'.posted[1].member_id = m
    /\ last'.posted[1].amount = last'.btx.amount

\* C8 as stated: with no rule for the IBAN and exactly one member matching
\* the name, import creates the default rule for that member and posts the
\* full amount to that member as a single transaction.
C8_DefaultRulePostsFullAmount ==
    [][\A m \in Members :
          NoRuleAndNameMatches({m}) =>
              /\ db'.rules = Append(db.rules, DefaultRule(m, last'.btx.iban))
              /\ FullAmountPostedTo(m)]_vars

\* C8 amended: with no rule for the IBAN and exactly one member matching the
\* name, import creates the default rule for that member; when that member
\* passes the duplicate guard it posts the full amount to that member as a
\* single transaction, otherwise it fails with the more-recent-transaction
\* error and posts nothing.
C8_DefaultRuleThenGuard ==
    [][\A m \in Members :
          NoRuleAndNameMatches({m}) =>
              /\ db'.rules = Append(db.rules, DefaultRule(m, last'.btx.iban))
              /\ IF check_last_member_transcation(last'.btx, db.members[m])
                 THEN last'.err = "" /\ FullAmountPostedTo(m)
                 ELSE /\ last'.err = "MoreRecentTransactionPresent"
                      /\ last'.posted = <<>>
                      /\ db'.members = db.members]_vars

\* C8 witness: an import created a default rule for a second IBAN of a
\* member and posted the full amount to that member
C8_Witness ==
    /\ ImportOk
    /\ Len(db.rules) = 2
    /\ db.rules[2] = DefaultRule(db.rules[1].member_id, last.btx.iban)
    /\ Len(last.posted) = 1
    /\ last.posted[1].member_id = db.rules[2].member_id
    /\ last.posted[1].amount = last.btx.amount

\* C9: with no rule for the IBAN and zero or several members matching the
\* name, import fails with AccountMatchFailed carrying the bank transaction
\* and leaves rules, transactions and members as they were.
C9_UnresolvedAccountFails ==
    [][\A ms \in SUBSET Members :
          (NoRuleAndNameMatches(ms) /\ Cardinality(ms) # 1) =>
              /\ last'.err = "AccountMatchFailed"
              /\ last'.err_tx = Some(last'.btx)
              /\ db' = db]_vars

\* C9 witness: a name that matches several members was refused
C9_Witness ==
    /\ last.op = "import"
    /\ last.err = "AccountMatchFailed"
    /\ Cardinality(QueryMembersByName(db, last.btx.name)) > 1
    /\ QueryRulesByIban(db, last.btx.iban) = <<>>

\* C10: when the allocation of a rule finds its split amount above the
\* remaining amount, import fails with InsufficientAmountForSplit and leaves
\* transactions and members as they were.
C10_InsufficientSplitAborts ==
    [][(/\ last'.op = "import"
        /\ \E k \in DOMAIN last'.trace :
              LET e == last'.trace[k]
              IN /\ e.step \in {"split", "queued"}
                 /\ e.rule.split_amount # None
                 /\ e.rule.split_amount[1] > e.total_amount)
       => (/\ last'.err = "InsufficientAmountForSplit"
           /\ db'.transactions = db.transactions
           /\ db'.members = db.members)]_vars

\* C10 witness: the second rule of a call asked for more than the first
\* rule had left
C10_Witness ==
    /\ last.op = "import"
    /\ last.err = "InsufficientAmountForSplit"
    /\ Len(last.trace) = 2
    /\ last.trace[1].step = "queued"
    /\ last.trace[2].step = "split"

\* C11: when the guard fails for the member of a rule import visits, the
\* call fails with the more-recent-transaction error and posts nothing: the
\* transactions and every member are as before the call, also for rules the
\* call had queued before.
C11_GuardFailureAbortsImport ==
    [][(/\ last'.op = "import"
        /\ \E k \in DOMAIN last'.trace : last'.trace[k].step = "guard")
       => (/\ last'.err = "MoreRecentTransactionPresent"
           /\ last'.posted = <<>>
           /\ db'.transactions = db.transactions
           /\ db'.members = db.members)]_vars

\* C11 witness: the guard failed for the second rule after the first rule
\* of the call had passed it and was queued
C11_Witness ==
    /\ last.op = "import"
    /\ last.err = "MoreRecentTransactionPresent"
    /\ Len(last.trace) = 2
    /\ last.trace[1].step = "queued"
    /\ last.trace[2].step = "guard"
    /\ last.trace[1].rule.member_id # last.trace[2].rule.member_id

\* C12: whenever import returns an error, a storage failure included, the
\* stored transactions, members and rules are what they were before the call.
C12_ImportIsAllOrNothing ==
    [][(last'.op = "import" /\ last'.err # "") => db' = db]_vars

\* Every write sequence of import ends in the database import returns
ImportWritesEndInImport ==
    \A btx \in GuardTxs :
        LET w == ImportWrites(db, btx)
        IN w # <<>> /\ import(db, btx).err = ""
              => w[Len(w)] = import(db, btx).db

\* The remaining amount the rule loop of the last call had after entry k
RemainingAfter(l, k) ==
    IF k < Len(l.trace) THEN l.trace[k + 1].total_amount ELSE l.total_amount

\* C13: a rule import excluded by its subject filter is skipped entirely: its
\* member receives no transaction from the call, that member's watermark is
\* unchanged, and the remaining amount is not reduced by the rule.
C13_ExcludedRuleIsSkipped ==
    [][last'.op = "import" =>
        \A k \in DOMAIN last'.trace :
            LET e == last'.trace[k]
                m == e.rule.member_id
            IN e.step = "excluded" =>
                /\ \A p \in DOMAIN last'.posted :
                      last'.posted[p].member_id # m
                /\ db'.members[m] = db.members[m]
                /\ RemainingAfter(last', k) = e.total_amount]_vars

\* The members the rule loop of call l queued a primary posting for
PrimaryMembers(l) ==
    {l.trace[k].rule.member_id :
        k \in {j \in DOMAIN l.trace : l.trace[j].step = "queued"}}

\* C14: after a successful import exactly the members with a primary posting
\* have the watermark (date, num) of the bank transaction; every other
\* member, the receiver of the overflow included, keeps its watermark, and
\* the overflow changes nothing of its receiver but the balance.
C14_WatermarkOnlyOnPrimaryPostings ==
    [][(last'.op = "import" /\ last'.err = "") =>
        \A m \in Members :
            IF m \in PrimaryMembers(last')
            THEN Watermark(db'.members[m])
                   = <<last'.btx.date, last'.btx.num>>
            ELSE db'.members[m] =
                   [db.members[m] EXCEPT !.account =
                       @ + SumAmounts(last'.posted, m)]]_vars

\* C14 witness: the receiver of the overflow had no primary posting and
\* kept its initial watermark while another member's watermark was set
C14_Witness ==
    /\ ImportOk
    /\ last.total_amount > 0
    /\ LET r == Head(ResolvedRules).member_id
       IN /\ r \notin PrimaryMembers(last)
          /\ PrimaryMembers(last) # {}
          /\ Watermark(db.members[r]) = <<0, 0>>
          /\ db.members[r].account = last.total_amount
          /\ \A m \in PrimaryMembers(last) :
                Watermark(db.members[m]) = <<last.btx.date, last.btx.num>>

\* The month a day falls in
MonthOf(d) == d \div DaysPerMonth

\* The months of the fees of the last call of calculate_fees
FeeMonths == {MonthOf(last.fees[i].date) : i \in DOMAIN last.fees}

\* The months the member of the last call is a member in
MembershipMonths ==
    {mo \in 0..MaxDate :
        /\ mo >= MonthOf(last.member.membership_start)
        /\ \/ last.member.membership_end = None
           \/ mo <= MonthOf(last.member.membership_end[1])}

\* The months the last call of calculate_fees has to charge
ChargeableMonths ==
    {mo \in MembershipMonths :
        /\ mo >= MonthOf(last.start)
        /\ mo <= MonthOf(last.end)
        /\ mo > MonthOf(last.member.last_payment)}

\* C15: calculate_fees returns no fee for a month before the month of
\* membership_start, after the month of membership_end or at or before the
\* month of last_payment; the months of membership_start and membership_end
\* are themselves charged when the window covers them and they are after
\* the month of last_payment.
C15_FeesWithinMembership ==
    last.op = "calculate_fees" =>
        /\ \A mo \in FeeMonths :
              /\ mo \in MembershipMonths
              /\ mo > MonthOf(last.member.last_payment)
        /\ \A mo \in ChargeableMonths :
              (\/ mo = MonthOf(last.member.membership_start)
               \/ /\ last.member.membership_end # None
                  /\ mo = MonthOf(last.member.membership_end[1]))
              => mo \in FeeMonths

\* C15 witness: a membership that starts and ends in the middle of two
\* different months is charged for both months
C15_Witness ==
    /\ last.op = "calculate_fees"
    /\ last.member.membership_end # None
    /\ last.member.membership_start % DaysPerMonth # 0
    /\ last.member.membership_end[1] % DaysPerMonth # 0
    /\ MonthOf(last.member.membership_start)
         < MonthOf(last.member.membership_end[1])
    /\ MonthOf(last.member.membership_start) \in FeeMonths
    /\ MonthOf(last.member.membership_end[1]) \in FeeMonths

\* C17: calculate_fees returns, in ascending order and without duplicates,
\* exactly one fee of amount member.fee dated the first day of every month
\* from the later of the months of membership_start and of the window start
\* through the month of the end date, in which the member is active and
\* which is after the month of last_payment; it is empty when that range is.
C17_FeesAreTheChargeableMonths ==
    last.op = "calculate_fees" =>
        /\ FeeMonths = ChargeableMonths
        /\ \A i \in DOMAIN last.fees :
              /\ last.fees[i].amount = last.member.fee
              /\ last.fees[i].date = MonthOf(last.fees[i].date) * DaysPerMonth
        /\ \A i, j \in DOMAIN last.fees :
              i < j => last.fees[i].date < last.fees[j].date
        /\ MonthOf(last.start) > MonthOf(last.end) => last.fees = <<>>

\* C17 witness: a window from the middle of a month to the middle of the
\* next month gave the fees of both months
C17_Witness ==
    /\ last.op = "calculate_fees"
    /\ Len(last.fees) = 2
    /\ last.start % DaysPerMonth # 0
    /\ last.end % DaysPerMonth # 0
    /\ last.fees[1].date = with_day1(last.start)
    /\ last.fees[2].date = with_day1(last.end)

\* C16: after a fee run for an end date has posted a member's fees and
\* advanced its account_calculated_at, calculate_fees for that member and the
\* same end date is empty, and a second run for that end date changes
\* nothing.
C16_FeeRunIsIdempotent ==
    [][last'.op = "fee_run" =>
        /\ \A m \in Members :
              db'.members[m] # db.members[m] =>
                  calculate_fees(db'.members[m],
                                 FeeWindowStart(db'.members[m]),
                                 with_day1(last'.until)) = <<>>
        /\ CalculateAccountsRun(db', last'.until) = db']_vars

\* C16 witness: a fee run posted fees for both members and advanced both
C16_Witness ==
    /\ last.op = "fee_run"
    /\ \A m \in Members :
          /\ db.members[m].account_calculated_at = with_day1(last.until)
          /\ db.members[m].account < 0
    /\ last.until > 0

\* C18: when a fee run for an end date completes, every member has
\* account_calculated_at equal to that end date.
C18_FeeRunAdvancesEveryCursor ==
    [][last'.op = "fee_run" =>
        \A m \in Members :
            db'.members[m].account_calculated_at
              = with_day1(last'.until)]_vars

\* C19: no state holds a fee transaction of a month that the
\* account_calculated_at of its member still precedes.
C19_NoFeeAheadOfCursor ==
    \A i \in DOMAIN db.transactions :
        LET tx == db.transactions[i]
        IN tx.account_name = MembershipFeeName =>
              db.members[tx.member_id].account_calculated_at >= tx.date

\* Every write sequence of a fee run ends in the database the run returns
FeeRunWritesEndInRun ==
    \A until \in FeeDates :
        LET w == FeeRunWrites(db, db.members, [i \in 1..NumMembers |-> i],
                              with_day1(until))
        IN w # <<>> => w[Len(w)] = CalculateAccountsRun(db, until)

C21_PlausibilityCheckGuardsBatch ==
    [][(/\ last'.op = "batch"
        /\ \A i \in DOMAIN last'.lines :
              check_import_date(db, last'.lines[i].date) # "")
       => (last'.posted = <<>> /\ db' = db)]_vars

\* The database after the first i lines of a statement were each imported
\* once, in statement order
RECURSIVE DbAfterLines(_, _, _)
DbAfterLines(d, lines, i) ==
    IF i = 0 THEN d
    ELSE import(DbAfterLines(d, lines, i - 1), lines[i]).db

\* What import returns for line i after the lines before it were imported
ErrorOfLine(d, lines, i) == import(DbAfterLines(d, lines, i - 1), lines[i]).err

FailingLines(d, lines) ==
    {i \in DOMAIN lines : ErrorOfLine(d, lines, i) # ""}

\* C22: a batch import attempts every line of the statement once, in
\* statement order, whatever failed before, and collects every failure with
\* its bank transaction, in statement order.
C22_BatchContinuesAfterFailure ==
    [][last'.op = "batch" =>
        LET lines == last'.lines
            F == FailingLines(db, lines)
        IN /\ db' = DbAfterLines(db, lines, Len(lines))
           /\ Len(last'.failed_tx) = Cardinality(F)
           /\ \A k \in DOMAIN last'.failed_tx :
                 LET i == CHOOSE i \in F :
                              Cardinality({j \in F : j <= i}) = k
                 IN last'.failed_tx[k] =
                       [tx |-> lines[i], err |-> ErrorOfLine(db, lines, i)]]_vars

\* C22 witness: the first line of a statement failed and the second line
\* was posted
C22_Witness ==
    /\ last.op = "batch"
    /\ Len(last.lines) = 2
    /\ Len(last.failed_tx) = 1
    /\ last.failed_tx[1].tx = last.lines[1]
    /\ Len(last.posted) = 1
    /\ last.posted[1].date = last.lines[2].date
    /\ last.posted[1].description = last.lines[2].subject

InsertedRow(d, m, tx) ==
    [tx EXCEPT !.member_id = m, !.id = Len(d.transactions) + 1]

C25_MatchSubjectIgnoresCase ==
    last.op = "match_subject" =>
        IF last.rule.match_subject = None THEN last.result = None
        ELSE last.result =
                Some(contains(to_lowercase(last.subject),
                              to_lowercase(last.rule.match_subject[1])))

\* The rule of the p-th transaction the rule loop of the last call queued
QueuedRule(p) ==
    LET k == CHOOSE k \in Queued :
                 Cardinality({j \in Queued : j <= k}) = p
    IN last.trace[k].rule

\* C26: a transaction import posts for a rule with split_amount is described
\* as the subject followed by the split suffix, one posted for a rule without
\* split_amount as the subject itself.
C26_SplitSuffix ==
    ImportOk =>
        \A p \in 1..Cardinality(Queued) :
            last.posted[p].description =
                IF QueuedRule(p).split_amount # None
                THEN last.btx.subject \o SplitSuffix
                ELSE last.btx.subject

\* C30: every transaction a successful import of a positive amount posted has
\* a positive amount.
C30_PostedAmountsArePositive ==
    (ImportOk /\ last.btx.amount > 0) =>
        \A p \in DOMAIN last.posted : last.posted[p].amount > 0

\* The call of import of one bank transaction, made step by step with no
\* other call in between, ends like the call made at once
RunCallIsImport ==
    \A btx \in RaceTxs :
        LET r == RunCall(db, NewCall(btx))
            whole == import(db, btx)
        IN last.op = "none" => (r.db = whole.db /\ r.call.err = whole.err)

WithoutId(tx) == [tx EXCEPT !.id = 0]

\* Databases a and b hold the same members and, id aside, the same
\* transactions the same number of times
SameLedger(a, b) ==
    /\ a.members = b.members
    /\ Len(a.transactions) = Len(b.transactions)
    /\ \A i \in DOMAIN a.transactions :
          LET row == WithoutId(a.transactions[i])
          IN Cardinality({j \in DOMAIN a.transactions :
                             WithoutId(a.transactions[j]) = row})
               = Cardinality({j \in DOMAIN b.transactions :
                                 WithoutId(b.transactions[j]) = row})

BothDone ==
    /\ last.op = "imports"
    /\ \A p \in 1..2 : last.calls[p].pc = "done"

\* C27: when two calls of import whose storage calls interleaved have both
\* returned, the members and the transactions are those of the two calls made
\* one after the other in one of the two orders.
C27_InterleavedImportsAreSerializable ==
    BothDone =>
        LET b1 == last.calls[1].btx
            b2 == last.calls[2].btx
            d12 == import(import(last.start, b1).db, b2).db
            d21 == import(import(last.start, b2).db, b1).db
        IN SameLedger(db, d12) \/ SameLedger(db, d21)

\* The rows of the fee transactions of member m
FeeRows(d, m) ==
    {i \in DOMAIN d.transactions :
        /\ d.transactions[i].member_id = m
        /\ d.transactions[i].account_name = MembershipFeeName}

\* C28: after any sequence of completed fee runs no member holds two
\* membership fee transactions of the same month.
C28_OneFeePerMemberAndMonth ==
    \A m \in Members :
        \A i, j \in FeeRows(db, m) :
            MonthOf(db.transactions[i].date) = MonthOf(db.transactions[j].date)
                => i = j

\* C28 witness: two runs charged a member for two months, and a later run
\* for an earlier end date has completed
C28_Witness ==
    /\ last.op = "fee_run"
    /\ \E m \in Members :
          /\ Cardinality(FeeRows(db, m)) = 2
          /\ \E i, j \in FeeRows(db, m) : j > i + 1
          /\ with_day1(last.until) < db.members[m].account_calculated_at

\* C29: a fee run never moves account_calculated_at of a member backwards,
\* and a run whose end month is at or before the month of a member's
\* account_calculated_at posts nothing for that member and leaves the member
\* as it was.
C29_CursorNeverMovesBack ==
    [][last'.op = "fee_run" =>
        \A m \in Members :
            /\ db'.members[m].account_calculated_at
                 >= db.members[m].account_calculated_at
            /\ MonthOf(last'.until)
                 <= MonthOf(db.members[m].account_calculated_at)
               => /\ db'.members[m] = db.members[m]
                  /\ FeeRows(db', m) = FeeRows(db, m)]_vars

\* C29 witness: a run for an end date before the account_calculated_at of a
\* member that had been charged left that member's balance and
\* account_calculated_at in place
C29_Witness ==
    /\ last.op = "fee_run"
    /\ \E m \in Members :
          /\ FeeRows(db, m) # {}
          /\ db.members[m].account < 0
          /\ db.members[m].account_calculated_at > with_day1(last.until)

====
